---- MODULE Spec2Model ----
(***************************************************************************)
(* Model of the PlantUML generator.  Backend: the render / repair retry    *)
(* loop (process_csv_and_generate, render_plantuml_from_text,              *)
(* _fix_invalid_plantuml_code) and the test-case validation of             *)
(* enrich_test_cases_with_ai, as documented in                             *)
(* ERROR_HANDLING_IMPROVEMENTS.md.  Front end: appReducer, apiService,     *)
(* StepIndicator and the components of the workflow steps (ApiKeyInput,    *)
(* FileTypeSelector, FileUpload, TestCaseEditor, CmdbEditor,               *)
(* DiagramViewer, ChatInterface).                                          *)
(***************************************************************************)
EXTENDS Integers, Sequences, FiniteSets, TLC

VARIABLES
    \* ---- one retry session (process_csv_and_generate) ----
    max_retries,    \* the retry ceiling of this session
    retry_count,    \* the loop counter
    plantuml_code,  \* the source the next render call is given
    candidate,      \* the source the AI generation handed to the loop
    pc,             \* "Attempting" | "Repairing" | "Succeeded" | "Exhausted" | "Idle"
    img_path,       \* the image path of the successful render, or NoValue
    error,          \* the exception that left the loop, or NoError
    syntax_error,   \* the PlantUMLSyntaxError bound by the except clause
    calls,          \* history: the external calls made so far, in order
    \* ---- enrich_test_cases_with_ai validation ----
    test_cases,     \* the original records
    result,         \* the AI's list, extended in place by the validation
    results,        \* history: the value of result after each step
    \* ---- concurrent calls of process_csv_and_generate ----
    sessions,       \* the locals of each running call
    blocked,        \* the external call each one is waiting in, or NoValue
    inflight,       \* history: external calls started and not yet returned
    \* ---- the React front end ----
    state,          \* the state of appReducer
    localStorage,   \* the value stored under "openai_api_key", or Null
    serviceApiKey,  \* apiService.apiKey
    keyInput,       \* the apiKey and isValid state of ApiKeyInput
    pending,        \* the handlers that wait for a response of the backend
    requests,       \* history: the requests sent to the backend, in order
    lastEvent,      \* history: the last handler run and its input
    submitted,      \* history: the keys handleSubmit saved and passed on
    editor,         \* editingId and editForm of the editor of the edit step
    chatMessage     \* the message state of ChatInterface

retryVars == <<max_retries, retry_count, plantuml_code, candidate, pc,
               img_path, error, syntax_error, calls>>
enrichVars == <<test_cases, result, results>>
sessionVars == <<sessions, blocked, inflight>>
appVars == <<state, localStorage, serviceApiKey, keyInput, pending, requests,
             lastEvent, submitted, editor,
             chatMessage>>
vars == <<retryVars, enrichVars, sessionVars, appVars>>

----------------------------------------------------------------------------
(* Bounds of the model *)

\* largest retry ceiling a session is configured with
MaxRetriesCap == 3
\* longest original list of test cases
MaxOriginal == 3
\* longest list the AI returns
MaxTransformed == 3
\* how many times the validation is run on one list
MaxValidations == 2
\* how many requests the front end sends to the backend in one run
MaxRequests == 3

----------------------------------------------------------------------------
(* Values *)

NoValue == "none"
NoError == [type |-> "none", msg |-> <<>>]

\* max_retries = 2
DefaultMaxRetries == 2

\* the exit status PlantUML uses for a syntax error
SyntaxExitStatus == 200

\* exit statuses the external process is observed with
ExitStatuses == {0, 1, 2, 199, 200, 201}

\* what the process wrote to stdout/stderr
ErrorDetails == {"missing @enduml", "java not found"}

\* image files the renderer writes
ImagePaths == {"e2e_test_diagram.png", "diagram_2.png"}

\* sources the AI produces
GeneratedSources == {"generated"}
FixedSources == {"fixedA", "fixedB"}

\* the minimal valid diagram _fix_invalid_plantuml_code falls back to
FallbackDiagram == "@startuml\n@enduml"

\* what the GPT call inside _fix_invalid_plantuml_code does
AgentOutcomes == [kind : {"ok"}, text : FixedSources]
                 \cup {[kind |-> "exception", text |-> ""],
                       [kind |-> "empty", text |-> ""]}

----------------------------------------------------------------------------
(* render_plantuml_from_text *)

\* variant: every exit status from 200 up counts as a syntax error
render_plantuml_from_text_ge(returncode, error_details, out_path) ==
    IF returncode # 0
    THEN IF returncode >= SyntaxExitStatus
         THEN [type |-> "PlantUMLSyntaxError",
               msg |-> <<"Invalid PlantUML syntax. ", error_details>>,
               img |-> NoValue]
         ELSE [type |-> "Exception", msg |-> <<error_details>>, img |-> NoValue]
    ELSE [type |-> "ok", msg |-> <<>>, img |-> out_path]

\* variant: the captured output is left out of the exception
render_plantuml_from_text_bare(returncode, error_details, out_path) ==
    IF returncode # 0
    THEN IF returncode = SyntaxExitStatus
         THEN [type |-> "PlantUMLSyntaxError",
               msg |-> <<"Invalid PlantUML syntax. ">>, img |-> NoValue]
         ELSE [type |-> "Exception", msg |-> <<>>, img |-> NoValue]
    ELSE [type |-> "ok", msg |-> <<>>, img |-> out_path]

\* the outcome of one render call, given what the subprocess did
render_plantuml_from_text(returncode, error_details, out_path) ==
    IF returncode # 0
    THEN IF returncode = SyntaxExitStatus
         THEN [type |-> "PlantUMLSyntaxError",
               msg |-> <<"Invalid PlantUML syntax. ", error_details>>,
               img |-> NoValue]
         ELSE [type |-> "Exception", msg |-> <<error_details>>, img |-> NoValue]
    ELSE [type |-> "ok", msg |-> <<>>, img |-> out_path]

\* str(syntax_error)
str(exc) == exc.msg

(* _fix_invalid_plantuml_code *)

\* variant: no fallback, the AI's text is handed back as it is
fix_invalid_plantuml_code_raw(invalid_code, error_message, agent) == agent.text

\* the source the repair hands back: the AI's text, or the fallback
fix_invalid_plantuml_code(invalid_code, error_message, agent) ==
    IF agent.kind = "ok" /\ agent.text # "" THEN agent.text ELSE FallbackDiagram

----------------------------------------------------------------------------
(* History records *)

RenderCall(source, returncode, details, outcome) ==
    [op |-> "render", source |-> source, returncode |-> returncode,
     details |-> details, raised |-> outcome.type, msg |-> outcome.msg,
     img |-> outcome.img, agent |-> NoValue, out |-> NoValue]

RepairCall(source, message, agent, out) ==
    [op |-> "repair", source |-> source, returncode |-> -1,
     details |-> NoValue, raised |-> NoValue, msg |-> message,
     img |-> NoValue, agent |-> agent.kind, out |-> out]

RenderIdx == {i \in 1..Len(calls) : calls[i].op = "render"}
RepairIdx == {i \in 1..Len(calls) : calls[i].op = "repair"}
NumRenders == Cardinality(RenderIdx)
NumRepairs == Cardinality(RepairIdx)

----------------------------------------------------------------------------
(* process_csv_and_generate: the retry loop *)

RetryInit ==
    /\ max_retries \in 0..MaxRetriesCap
    /\ retry_count = 0
    /\ candidate \in GeneratedSources
    /\ plantuml_code = candidate
    /\ pc = "Attempting"
    /\ img_path = NoValue
    /\ error = NoError
    /\ syntax_error = NoError
    /\ calls = <<>>

\* variant: a fix is still requested when the counter is at the ceiling
MayRetryInclusive(count, limit) == count <= limit

\* the except clause's test: is another fix allowed?
MayRetry(count, limit) == count < limit

\* variant: the counter is never advanced
NextRetryCountStuck(count) == count

\* variant: the counter is advanced by two
NextRetryCountSkip(count) == count + 2

\* retry_count += 1
NextRetryCount(count) == count + 1

\* variant: except Exception, which catches every failure of the renderer
CaughtAny(type) == type # "ok"

\* except PlantUMLSyntaxError as syntax_error: which exceptions it catches
Caught(type) == type = "PlantUMLSyntaxError"

\* the local variables of one call of process_csv_and_generate
Session ==
    [max_retries |-> max_retries, retry_count |-> retry_count,
     plantuml_code |-> plantuml_code, candidate |-> candidate, pc |-> pc,
     img_path |-> img_path, error |-> error, syntax_error |-> syntax_error,
     calls |-> calls]

SetSession(st) ==
    /\ max_retries' = st.max_retries
    /\ retry_count' = st.retry_count
    /\ plantuml_code' = st.plantuml_code
    /\ candidate' = st.candidate
    /\ pc' = st.pc
    /\ img_path' = st.img_path
    /\ error' = st.error
    /\ syntax_error' = st.syntax_error
    /\ calls' = st.calls

\* while retry_count <= max_retries: the loop is at its head and goes on
AtLoopHead(st) == st.pc = "Attempting" /\ st.retry_count <= st.max_retries

\* one pass of the while body up to the fix call, on the locals st:
\* try: img_path = render_plantuml_from_text(plantuml_code, ...)
render_pass(st, returncode, details, out_path) ==
    LET outcome == render_plantuml_from_text(returncode, details, out_path)
        raised == [type |-> outcome.type, msg |-> outcome.msg]
        logged == [st EXCEPT !.calls = Append(@,
                      RenderCall(st.plantuml_code, returncode, details, outcome))]
    IN IF outcome.type = "ok"
       THEN \* break  # Success
            [logged EXCEPT !.img_path = outcome.img, !.pc = "Succeeded"]
       ELSE IF Caught(outcome.type)
       THEN IF MayRetry(st.retry_count, st.max_retries)
            THEN [logged EXCEPT !.syntax_error = raised, !.pc = "Repairing"]
            ELSE \* raise  # Max retries reached
                 [logged EXCEPT !.syntax_error = raised, !.error = raised,
                                !.pc = "Exhausted"]
       ELSE \* not caught by the except clause: leaves the loop
            [logged EXCEPT !.error = raised, !.pc = "Exhausted"]

\* variant: the fixed code is computed but the old code is rendered again
fix_pass_keeps_code(st, agent) ==
    LET fixed == fix_invalid_plantuml_code(st.plantuml_code,
                                           str(st.syntax_error), agent)
    IN [st EXCEPT !.calls = Append(@, RepairCall(st.plantuml_code,
                                         str(st.syntax_error), agent, fixed)),
                  !.retry_count = NextRetryCount(@),
                  !.pc = "Attempting"]

\* variant: the fix is given the generated candidate, not the code that failed
fix_pass_from_candidate(st, agent) ==
    LET fixed == fix_invalid_plantuml_code(st.candidate,
                                           str(st.syntax_error), agent)
    IN [st EXCEPT !.calls = Append(@, RepairCall(st.candidate,
                                         str(st.syntax_error), agent, fixed)),
                  !.plantuml_code = fixed,
                  !.retry_count = NextRetryCount(@),
                  !.pc = "Attempting"]

\* variant: a fix whose AI call failed is asked for again
fix_pass_again(st, agent) ==
    LET fixed == fix_invalid_plantuml_code(st.plantuml_code,
                                           str(st.syntax_error), agent)
    IN [st EXCEPT !.calls = Append(@, RepairCall(st.plantuml_code,
                                         str(st.syntax_error), agent, fixed)),
                  !.plantuml_code = fixed,
                  !.retry_count = IF agent.kind = "ok"
                                  THEN NextRetryCount(@) ELSE @,
                  !.pc = IF agent.kind = "ok" THEN "Attempting" ELSE "Repairing"]

\* the rest of the except clause, on the locals st:
\* plantuml_code = _fix_invalid_plantuml_code(plantuml_code, str(syntax_error))
\* retry_count += 1
fix_pass(st, agent) ==
    LET fixed == fix_invalid_plantuml_code(st.plantuml_code,
                                           str(st.syntax_error), agent)
    IN [st EXCEPT !.calls = Append(@, RepairCall(st.plantuml_code,
                                         str(st.syntax_error), agent, fixed)),
                  !.plantuml_code = fixed,
                  !.retry_count = NextRetryCount(@),
                  !.pc = "Attempting"]

\* the render call of one pass and what the loop does with its outcome
Render ==
    /\ AtLoopHead(Session)
    /\ \E returncode \in ExitStatuses, details \in ErrorDetails,
          out_path \in ImagePaths :
         SetSession(render_pass(Session, returncode, details, out_path))
    /\ UNCHANGED <<enrichVars, sessionVars, appVars>>

\* the fix call of one pass
Repair ==
    /\ pc = "Repairing"
    /\ \E agent \in AgentOutcomes : SetSession(fix_pass(Session, agent))
    /\ UNCHANGED <<enrichVars, sessionVars, appVars>>

RetryNext == Render \/ Repair

----------------------------------------------------------------------------
(* enrich_test_cases_with_ai: every original test case is kept *)

\* ids of the test cases the user uploaded and ids the AI may use
OriginalIds == {"A", "B", "C"}
ResultIds == OriginalIds \cup {"D"}

\* a test case as uploaded, and a test case as the AI returns it
OriginalCases == [id : OriginalIds, body : {"user"}]
ResultCases == [id : ResultIds, body : {"user", "ai"}]

SeqsUpTo(S, n) == UNION {[1..k -> S] : k \in 0..n}

\* {tc.get('id') for tc in cases}
ids(cases) == {cases[i].id : i \in 1..Len(cases)}

\* variant: the missing test cases are found but not added
preserve_no_extend(original, transformed) == transformed

\* variant: the missing test cases are put in front of the AI's list
preserve_prepend(original, transformed) ==
    LET original_ids == ids(original)
        result_ids == ids(transformed)
        missing_ids == original_ids \ result_ids
    IN IF missing_ids # {}
       THEN SelectSeq(original, LAMBDA tc : tc.id \in missing_ids) \o transformed
       ELSE transformed

\* variant: the originals are added back without looking at what is missing
preserve_extend_all(original, transformed) == transformed \o original

\* the validation at the end of enrich_test_cases_with_ai: the value of
\* result after it, given test_cases and the AI's result
preserve(original, transformed) ==
    LET original_ids == ids(original)
        result_ids == ids(transformed)
        missing_ids == original_ids \ result_ids
    IN IF missing_ids # {}
       THEN LET missing_cases ==
                    SelectSeq(original, LAMBDA tc : tc.id \in missing_ids)
            IN transformed \o missing_cases
       ELSE transformed

EnrichInit ==
    /\ test_cases \in SeqsUpTo(OriginalCases, MaxOriginal)
    /\ result \in SeqsUpTo(ResultCases, MaxTransformed)
    /\ results = <<result>>

\* run the validation on the current result
Validate ==
    /\ Len(results) <= MaxValidations
    /\ result' = preserve(test_cases, result)
    /\ results' = Append(results, result')
    /\ UNCHANGED test_cases
    /\ UNCHANGED <<retryVars, sessionVars, appVars>>

----------------------------------------------------------------------------
(* concurrent requests: each runs process_csv_and_generate on its own locals *)

SessionIds == {"s1", "s2"}

\* what the renderer and the AI do in the runs with two sessions
SessionExitStatuses == {0, 1, SyntaxExitStatus}
SessionErrorDetails == {"missing @enduml"}
SessionImagePaths == {"e2e_test_diagram.png"}
SessionAgentOutcomes == {[kind |-> "ok", text |-> "fixedA"],
                         [kind |-> "exception", text |-> ""]}

\* the locals at the start of the loop
InitialSession(limit, code) ==
    [max_retries |-> limit, retry_count |-> 0, plantuml_code |-> code,
     candidate |-> code, pc |-> "Attempting", img_path |-> NoValue,
     error |-> NoError, syntax_error |-> NoError, calls |-> <<>>]

SessionsInit ==
    /\ sessions \in [SessionIds ->
                       {InitialSession(k, c) : k \in 0..MaxRetriesCap,
                                               c \in GeneratedSources}]
    /\ blocked = [s \in SessionIds |-> NoValue]
    /\ inflight = [s \in SessionIds |-> 0]

\* variant: the renderer is started without waiting for it
SessionStartRenderNoWait(s) ==
    /\ blocked[s] = NoValue
    /\ AtLoopHead(sessions[s])
    /\ inflight' = [inflight EXCEPT ![s] = @ + 1]
    /\ UNCHANGED <<sessions, blocked>>
    /\ UNCHANGED <<retryVars, enrichVars, appVars>>

\* subprocess.run(cmd, ...) is entered: the call blocks until the process exits
SessionStartRender(s) ==
    /\ blocked[s] = NoValue
    /\ AtLoopHead(sessions[s])
    /\ blocked' = [blocked EXCEPT ![s] = "render"]
    /\ inflight' = [inflight EXCEPT ![s] = @ + 1]
    /\ UNCHANGED sessions
    /\ UNCHANGED <<retryVars, enrichVars, appVars>>

\* the process has exited: the rest of the pass runs on the session's locals
SessionRenderReturns(s) ==
    /\ blocked[s] = "render"
    /\ \E returncode \in SessionExitStatuses, details \in SessionErrorDetails,
          out_path \in SessionImagePaths :
         sessions' = [sessions EXCEPT
                        ![s] = render_pass(@, returncode, details, out_path)]
    /\ blocked' = [blocked EXCEPT ![s] = NoValue]
    /\ inflight' = [inflight EXCEPT ![s] = @ - 1]
    /\ UNCHANGED <<retryVars, enrichVars, appVars>>

\* _fix_invalid_plantuml_code(...) is entered
SessionStartRepair(s) ==
    /\ blocked[s] = NoValue
    /\ sessions[s].pc = "Repairing"
    /\ blocked' = [blocked EXCEPT ![s] = "repair"]
    /\ inflight' = [inflight EXCEPT ![s] = @ + 1]
    /\ UNCHANGED sessions
    /\ UNCHANGED <<retryVars, enrichVars, appVars>>

\* variant: retry_count is one module-level counter for all sessions
SessionRepairReturnsGlobalCount(s) ==
    /\ blocked[s] = "repair"
    /\ \E agent \in SessionAgentOutcomes :
         LET mine == fix_pass(sessions[s], agent)
         IN sessions' = [t \in SessionIds |->
                           IF t = s THEN mine
                           ELSE [sessions[t] EXCEPT
                                   !.retry_count = mine.retry_count]]
    /\ blocked' = [blocked EXCEPT ![s] = NoValue]
    /\ inflight' = [inflight EXCEPT ![s] = @ - 1]
    /\ UNCHANGED <<retryVars, enrichVars, appVars>>

\* the fix has returned: plantuml_code and retry_count of this session change
SessionRepairReturns(s) ==
    /\ blocked[s] = "repair"
    /\ \E agent \in SessionAgentOutcomes :
         sessions' = [sessions EXCEPT ![s] = fix_pass(@, agent)]
    /\ blocked' = [blocked EXCEPT ![s] = NoValue]
    /\ inflight' = [inflight EXCEPT ![s] = @ - 1]
    /\ UNCHANGED <<retryVars, enrichVars, appVars>>

SessionsNext ==
    \E s \in SessionIds :
        \/ SessionStartRender(s)
        \/ SessionRenderReturns(s)
        \/ SessionStartRepair(s)
        \/ SessionRepairReturns(s)

----------------------------------------------------------------------------
(* The front end: appReducer, ApiKeyInput, FileTypeSelector, FileUpload *)

Null == "null"

\* keys a user types or the browser has stored, with their characters
KeyChars ==
    [k \in {"sk-a1", "sk-_-", "sk-", "sk-a!", "abc", "xsk-a1", ""} |->
        CASE k = "sk-a1" -> <<"s", "k", "-", "a", "1">>
          [] k = "sk-_-" -> <<"s", "k", "-", "_", "-">>
          [] k = "sk-" -> <<"s", "k", "-">>
          [] k = "sk-a!" -> <<"s", "k", "-", "a", "!">>
          [] k = "abc" -> <<"a", "b", "c">>
          [] k = "xsk-a1" -> <<"x", "s", "k", "-", "a", "1">>
          [] OTHER -> <<>>]
SampleKeys == DOMAIN KeyChars
\* keys an earlier visit has left in the browser
StoredKeys == {"sk-a1", "sk-a!", ""}

\* [a-zA-Z0-9_-]
KeyBodyChars == {"a", "b", "c", "k", "s", "x", "1", "_", "-"}

\* /^sk-[a-zA-Z0-9_-]+$/.test(key)
validateApiKey(key) ==
    LET cs == KeyChars[key]
    IN /\ Len(cs) >= 4
       /\ SubSeq(cs, 1, 3) = <<"s", "k", "-">>
       /\ \A j \in 4..Len(cs) : cs[j] \in KeyBodyChars

\* storage.getValidatedApiKey()
getValidatedApiKey ==
    IF localStorage # Null /\ localStorage # "" /\ validateApiKey(localStorage)
    THEN localStorage ELSE Null

\* a File: its MIME type and the part of its name after the last dot
NoFile == [type |-> Null, ext |-> Null]
Files ==
    {[type |-> "text/csv", ext |-> "csv"],
     [type |-> "", ext |-> "CSV"],
     [type |-> "application/vnd.ms-excel", ext |-> "pdf"],
     [type |-> "application/json", ext |-> "json"],
     [type |-> "application/pdf", ext |-> "pdf"]}

\* the /i flag of the extension patterns
LowerCase(ext) ==
    CASE ext = "CSV" -> "csv"
      [] ext = "YML" -> "yml"
      [] OTHER -> ext

\* rows the backend extracts from an uploaded file
UploadedRows == {<<>>, <<[id |-> "TC1", title |-> "login"]>>,
                 <<[id |-> "TC1", title |-> "login"],
                   [id |-> "TC2", title |-> "logout"]>>}

\* no record is being edited
NoEdit == [editingId |-> Null, editForm |-> <<>>]

initialState ==
    [currentStep |-> "landing", apiKey |-> Null, fileType |-> Null,
     uploadedFile |-> NoFile, testCases |-> <<>>, cmdbItems |-> <<>>,
     plantUMLCode |-> "", plantUMLImage |-> "", chatHistory |-> <<>>,
     loading |-> FALSE, error |-> Null]

\* variant: the updates are dropped
MergeKeepsItem(item, updates) == item

\* { ...item, ...updates }
Merge(item, updates) ==
    [f \in DOMAIN item \cup DOMAIN updates |->
        IF f \in DOMAIN updates THEN updates[f] ELSE item[f]]

\* appReducer(state, action)
appReducer(st, action) ==
    CASE action.type = "SET_LOADING" -> [st EXCEPT !.loading = action.payload]
      [] action.type = "SET_ERROR" ->
            [st EXCEPT !.error = action.payload, !.loading = FALSE]
      [] action.type = "CLEAR_ERROR" -> [st EXCEPT !.error = Null]
      [] action.type = "SET_STEP" -> [st EXCEPT !.currentStep = action.payload]
      [] action.type = "SET_API_KEY" -> [st EXCEPT !.apiKey = action.payload]
      [] action.type = "SET_FILE_TYPE" -> [st EXCEPT !.fileType = action.payload]
      [] action.type = "SET_UPLOADED_FILE" ->
            [st EXCEPT !.uploadedFile = action.payload]
      [] action.type = "SET_TEST_CASES" -> [st EXCEPT !.testCases = action.payload]
      [] action.type = "SET_CMDB_ITEMS" -> [st EXCEPT !.cmdbItems = action.payload]
      [] action.type = "UPDATE_TEST_CASE" ->
            [st EXCEPT !.testCases =
                [i \in 1..Len(@) |->
                    IF @[i].id = action.payload.id
                    THEN Merge(@[i], action.payload.updates) ELSE @[i]]]
      [] action.type = "UPDATE_CMDB_ITEM" ->
            [st EXCEPT !.cmdbItems =
                [i \in 1..Len(@) |->
                    IF @[i].id = action.payload.id
                    THEN Merge(@[i], action.payload.updates) ELSE @[i]]]
      [] action.type = "SET_PLANTUML_DATA" ->
            [st EXCEPT !.plantUMLCode = action.payload.code,
                       !.plantUMLImage = action.payload.image]
      [] action.type = "ADD_CHAT_MESSAGE" ->
            [st EXCEPT !.chatHistory = Append(@, action.payload)]
      [] action.type = "RESET_STATE" -> initialState
      [] OTHER -> st

Action(type, payload) == [type |-> type, payload |-> payload]

\* the state after the actions of a handler are dispatched in order
RECURSIVE Dispatch(_, _)
Dispatch(st, actions) ==
    IF actions = <<>> THEN st
    ELSE Dispatch(appReducer(st, Head(actions)), Tail(actions))

Event(ev, input) ==
    [ev |-> ev, input |-> input, tick |-> 1 - lastEvent.tick]

AppInit ==
    /\ state = initialState
    /\ localStorage \in StoredKeys \cup {Null}
    /\ serviceApiKey = Null
    /\ keyInput = [apiKey |-> "", isValid |-> Null]
    /\ pending = {}
    /\ requests = <<>>
    /\ lastEvent = [ev |-> "none", input |-> Null, tick |-> 0]
    /\ submitted = {}
    /\ editor = NoEdit
    /\ chatMessage = ""

\* a value of isValid: null, true or false
Tri(b) == IF b THEN "true" ELSE "false"

\* LandingPage.handleGetStarted, then the mount effect of ApiKeyInput
HandleGetStarted ==
    /\ state.currentStep = "landing"
    /\ state' = appReducer(state, Action("SET_STEP", "api-key"))
    /\ keyInput' = IF localStorage # Null /\ localStorage # ""
                   THEN [apiKey |-> localStorage, isValid |-> "true"]
                   ELSE [apiKey |-> "", isValid |-> Null]
    /\ lastEvent' = Event("handleGetStarted", Null)
    /\ UNCHANGED <<localStorage, serviceApiKey, pending, requests, submitted>>
    /\ UNCHANGED <<editor, chatMessage>>
    /\ UNCHANGED <<retryVars, enrichVars, sessionVars>>

\* ApiKeyInput.handleApiKeyChange
HandleApiKeyChange(value) ==
    /\ state.currentStep = "api-key"
    /\ keyInput' = [apiKey |-> value,
                    isValid |-> IF Len(KeyChars[value]) = 0 THEN Null
                                ELSE Tri(validateApiKey(value))]
    /\ lastEvent' = Event("handleApiKeyChange", value)
    /\ UNCHANGED <<state, localStorage, serviceApiKey, pending, requests,
                   submitted>>
    /\ UNCHANGED <<editor, chatMessage>>
    /\ UNCHANGED <<retryVars, enrichVars, sessionVars>>

\* ApiKeyInput.handleClearKey
HandleClearKey ==
    /\ state.currentStep = "api-key"
    /\ keyInput' = [apiKey |-> "", isValid |-> Null]
    /\ localStorage' = Null
    /\ lastEvent' = Event("handleClearKey", Null)
    /\ UNCHANGED <<state, serviceApiKey, pending, requests, submitted>>
    /\ UNCHANGED <<editor, chatMessage>>
    /\ UNCHANGED <<retryVars, enrichVars, sessionVars>>

\* ApiKeyInput.handleSubmit with isValid true, and AppContent.handleApiKeySet
HandleSubmit ==
    /\ state.currentStep = "api-key"
    /\ keyInput.isValid = "true"
    /\ localStorage' = keyInput.apiKey
    /\ submitted' = submitted \cup {keyInput.apiKey}
    /\ state' = Dispatch(state, <<Action("SET_API_KEY", keyInput.apiKey),
                                  Action("SET_STEP", "file-type")>>)
    /\ serviceApiKey' = keyInput.apiKey
    /\ lastEvent' = Event("handleSubmit", keyInput.apiKey)
    /\ UNCHANGED <<keyInput, pending, requests>>
    /\ UNCHANGED <<editor, chatMessage>>
    /\ UNCHANGED <<retryVars, enrichVars, sessionVars>>

\* FileTypeSelector.handleFileTypeSelect, then the mount effect of FileUpload
HandleFileTypeSelect(fileType) ==
    /\ state.currentStep = "file-type"
    /\ LET selected == Dispatch(state, <<Action("SET_FILE_TYPE", fileType),
                                         Action("SET_STEP", "upload")>>)
           savedApiKey == getValidatedApiKey
       IN IF savedApiKey # Null
          THEN /\ state' = Dispatch(selected,
                              <<Action("SET_API_KEY", savedApiKey),
                                Action("SET_STEP", "upload")>>)
               /\ serviceApiKey' = savedApiKey
          ELSE /\ state' = selected
               /\ UNCHANGED serviceApiKey
    /\ lastEvent' = Event("handleFileTypeSelect", fileType)
    /\ UNCHANGED <<localStorage, keyInput, pending, requests, submitted>>
    /\ UNCHANGED <<editor, chatMessage>>
    /\ UNCHANGED <<retryVars, enrichVars, sessionVars>>

\* state.fileType || "test-cases"
SelectedFileType(st) == IF st.fileType = Null THEN "test-cases" ELSE st.fileType

\* validTypes of handleFiles
validTypes(fileType) ==
    IF fileType = "cmdb"
    THEN {"text/csv", "application/vnd.ms-excel",
          "application/vnd.openxmlformats-officedocument.spreadsheetml.sheet",
          "application/json", "text/yaml", "application/x-yaml"}
    ELSE {"text/csv", "application/vnd.ms-excel",
          "application/vnd.openxmlformats-officedocument.spreadsheetml.sheet"}

\* the alternatives of the pattern validExtensions of handleFiles
validExtensions(fileType) ==
    IF fileType = "cmdb"
    THEN {"csv", "xlsx", "xls", "json", "yaml", "yml"}
    ELSE {"csv", "xlsx", "xls"}

\* errorMessage of handleFiles
errorMessage(fileType) ==
    IF fileType = "cmdb"
    THEN "Please select a CSV, Excel, JSON, or YAML file for CMDB data"
    ELSE "Please select a CSV or Excel file for test cases"

\* file.name.match(validExtensions), a pattern with the flag i
NameMatches(file, extensions) == LowerCase(file.ext) \in extensions

\* variant: every format the CMDB upload takes is taken for test cases too
IsRejectedByCmdbRule(file, fileType) ==
    /\ file.type \notin validTypes("cmdb")
    /\ ~NameMatches(file, validExtensions("cmdb"))

\* !validTypes.includes(file.type) && !file.name.match(validExtensions)
IsRejected(file, fileType) ==
    /\ file.type \notin validTypes(fileType)
    /\ ~NameMatches(file, validExtensions(fileType))

\* the truth value JavaScript gives a string or null
Truthy(value) == value # Null /\ value # ""

\* variant: the key is left out of the headers
getHeadersNoKey(includeContentType) ==
    [ContentType |-> IF includeContentType THEN "application/json" ELSE Null,
     XOpenAIAPIKey |-> Null]

\* apiService.getHeaders; Null stands for a header that is not sent
getHeaders(includeContentType) ==
    [ContentType |-> IF includeContentType THEN "application/json" ELSE Null,
     XOpenAIAPIKey |-> IF Truthy(serviceApiKey) THEN serviceApiKey ELSE Null]

\* apiService.uploadFile up to its fetch
UploadRequest(file, fileType) ==
    [endpoint |-> IF fileType = "cmdb" THEN "/upload-cmdb/" ELSE "/upload-csv/",
     file |-> file, headers |-> getHeaders(FALSE)]

\* a handler that waits for the response to the request it has just sent
Waiting(kind, file, fileType) ==
    [kind |-> kind, file |-> file, fileType |-> fileType,
     request |-> Len(requests) + 1]

\* variant: the controls stay usable while a request is in flight
LoadingGuardOff(st) == FALSE

\* if (state.loading) return the spinner; disabled={state.loading}
LoadingGuard(st) == st.loading

\* FileUpload.handleFiles up to the await of apiService.uploadFile
HandleFiles(file) ==
    /\ state.currentStep = "upload"
    /\ ~LoadingGuard(state)
    /\ LET fileType == SelectedFileType(state)
       IN IF IsRejected(file, fileType)
          THEN /\ state' = appReducer(state,
                              Action("SET_ERROR", errorMessage(fileType)))
               /\ UNCHANGED <<pending, requests>>
          ELSE /\ Len(requests) < MaxRequests
               /\ state' = appReducer(state, Action("SET_LOADING", TRUE))
               /\ requests' = Append(requests, UploadRequest(file, fileType))
               /\ pending' = pending \cup {Waiting("upload", file, fileType)}
    /\ lastEvent' = Event("handleFiles", file)
    /\ UNCHANGED <<localStorage, serviceApiKey, keyInput, submitted>>
    /\ UNCHANGED <<editor, chatMessage>>
    /\ UNCHANGED <<retryVars, enrichVars, sessionVars>>

\* messages of the errors apiService.uploadFile throws
UploadErrors == {"HTTP error! status: 500", ""}

\* FileUpload.handleFiles from the return of apiService.uploadFile
UploadReturns ==
    /\ \E p \in pending :
        /\ p.kind = "upload"
        /\ pending' = pending \ {p}
        /\ \/ \E rows \in UploadedRows :
                state' = Dispatch(state,
                    <<Action("SET_UPLOADED_FILE", p.file),
                      IF p.fileType = "cmdb"
                      THEN Action("SET_CMDB_ITEMS", rows)
                      ELSE Action("SET_TEST_CASES", rows),
                      Action("SET_STEP", "edit"),
                      Action("SET_LOADING", FALSE)>>)
           \/ state' = Dispatch(state,
                    <<Action("SET_ERROR", "Failed to process file"),
                      Action("SET_LOADING", FALSE)>>)
           \/ \E message \in UploadErrors :
                state' = Dispatch(state,
                    <<Action("SET_ERROR", IF message = ""
                                          THEN "Failed to upload file"
                                          ELSE message),
                      Action("SET_LOADING", FALSE)>>)
    /\ lastEvent' = Event("uploadReturns", Null)
    /\ UNCHANGED <<localStorage, serviceApiKey, keyInput, requests, submitted>>
    /\ UNCHANGED <<editor, chatMessage>>
    /\ UNCHANGED <<retryVars, enrichVars, sessionVars>>

\* the error the four AI methods of apiService throw without a key
MissingKeyError == "OpenAI API key is required. Please set your API key first."

\* generateDiagram, generateCmdbDiagram, chatWithPlantUML and
\* chatWithCmdbPlantUML stop here when no key is set
ThrowsMissingKey == ~Truthy(serviceApiKey)

\* the request one of these four methods sends (its JSON body is left out)
KeyedRequest(endpoint) ==
    [endpoint |-> endpoint, file |-> NoFile, headers |-> getHeaders(TRUE)]

\* diagrams the backend returns: the code and the path of its image
Diagrams == {[code |-> "@startuml A", image |-> "/static/A.png"],
             [code |-> "@startuml B", image |-> "/static/B.png"]}

\* what awaiting a request gives: a result with success true, a result
\* with success false, or an Error thrown for a response that is not ok
Responses ==
    {[returns |-> "success", code |-> d.code, image |-> d.image,
      message |-> ""] : d \in Diagrams}
    \cup {[returns |-> "failure", code |-> Null, image |-> Null,
           message |-> ""]}
    \cup {[returns |-> "throws", code |-> Null, image |-> Null,
           message |-> m] : m \in UploadErrors}

\* variant: the handler has no finally clause
FinallyKeepsLoading(st) == st

\* finally { setLoading(dispatch, false) }
Finally(st) == appReducer(st, Action("SET_LOADING", FALSE))

\* error.message || fallback
MessageOr(text, fallback) == IF text = "" THEN fallback ELSE text

\* variant: the diagram step is entered whatever the response was
GenerateRespondedAlwaysShows(st, r) ==
    Finally(appReducer(st, Action("SET_STEP", "diagram")))

\* variant: a successful generation clears the error
GenerateRespondedClearsError(st, r) ==
    IF r.returns = "success"
    THEN Finally(Dispatch(st,
            <<Action("CLEAR_ERROR", Null),
              Action("SET_PLANTUML_DATA", [code |-> r.code, image |-> r.image]),
              Action("SET_STEP", "diagram")>>))
    ELSE Finally(appReducer(st, Action("SET_ERROR", "Failed to generate diagram")))

\* handleGenerateDiagram of TestCaseEditor and of CmdbEditor after the await
GenerateResponded(st, r) ==
    Finally(
        CASE r.returns = "success" ->
                Dispatch(st,
                    <<Action("SET_PLANTUML_DATA",
                             [code |-> r.code, image |-> r.image]),
                      Action("SET_STEP", "diagram")>>)
          [] r.returns = "failure" ->
                appReducer(st, Action("SET_ERROR", "Failed to generate diagram"))
          [] OTHER ->
                appReducer(st, Action("SET_ERROR",
                    MessageOr(r.message, "Failed to generate diagram"))))

\* handleGenerateDiagram of TestCaseEditor and of CmdbEditor up to the await
HandleGenerateDiagram ==
    /\ state.currentStep = "edit"
    /\ ~LoadingGuard(state)
    /\ state.fileType = "cmdb" \/ Len(state.testCases) > 0
    /\ LET loading == appReducer(state, Action("SET_LOADING", TRUE))
           endpoint == IF state.fileType = "cmdb"
                       THEN "/generate-cmdb-diagram/" ELSE "/generate-diagram/"
       IN IF ThrowsMissingKey
          THEN /\ state' = Finally(appReducer(loading,
                              Action("SET_ERROR", MissingKeyError)))
               /\ UNCHANGED <<pending, requests>>
          ELSE /\ Len(requests) < MaxRequests
               /\ state' = loading
               /\ requests' = Append(requests, KeyedRequest(endpoint))
               /\ pending' = pending
                    \cup {Waiting("generate", NoFile, SelectedFileType(state))}
    /\ lastEvent' = Event("handleGenerateDiagram", Null)
    /\ UNCHANGED <<localStorage, serviceApiKey, keyInput, submitted, editor,
                   chatMessage>>
    /\ UNCHANGED <<retryVars, enrichVars, sessionVars>>

\* the response to a generate request arrives
GenerateReturns ==
    /\ \E p \in pending :
        /\ p.kind = "generate"
        /\ pending' = pending \ {p}
        /\ \E r \in Responses :
            /\ state' = GenerateResponded(state, r)
            /\ lastEvent' = Event("generateReturns", r)
    /\ UNCHANGED <<localStorage, serviceApiKey, keyInput, requests, submitted,
                   editor, chatMessage>>
    /\ UNCHANGED <<retryVars, enrichVars, sessionVars>>

\* the mount effect of FileUpload, run on the state st
MountFileUpload(st) ==
    LET savedApiKey == getValidatedApiKey
    IN IF savedApiKey # Null
       THEN /\ state' = Dispatch(st, <<Action("SET_API_KEY", savedApiKey),
                                       Action("SET_STEP", "upload")>>)
            /\ serviceApiKey' = savedApiKey
       ELSE /\ state' = st
            /\ UNCHANGED serviceApiKey

\* the Back button of TestCaseEditor
HandleBackToUpload ==
    /\ state.currentStep = "edit"
    /\ state.fileType # "cmdb"
    /\ ~LoadingGuard(state)
    /\ MountFileUpload(appReducer(state, Action("SET_STEP", "upload")))
    /\ editor' = NoEdit
    /\ lastEvent' = Event("setStep", "upload")
    /\ UNCHANGED <<localStorage, keyInput, pending, requests, submitted,
                   chatMessage>>
    /\ UNCHANGED <<retryVars, enrichVars, sessionVars>>

\* the buttons of DiagramViewer: to the editor, to the chat, to a new upload
HandleViewerStep(step) ==
    /\ state.currentStep = "diagram"
    /\ IF step = "upload"
       THEN MountFileUpload(appReducer(state, Action("SET_STEP", step)))
       ELSE /\ state' = appReducer(state, Action("SET_STEP", step))
            /\ UNCHANGED serviceApiKey
    /\ lastEvent' = Event("setStep", step)
    /\ UNCHANGED <<localStorage, keyInput, pending, requests, submitted,
                   editor, chatMessage>>
    /\ UNCHANGED <<retryVars, enrichVars, sessionVars>>

\* the Back to Diagram button of ChatInterface
HandleBackToDiagram ==
    /\ state.currentStep = "chat"
    /\ state' = appReducer(state, Action("SET_STEP", "diagram"))
    /\ chatMessage' = ""
    /\ lastEvent' = Event("setStep", "diagram")
    /\ UNCHANGED <<localStorage, serviceApiKey, keyInput, pending, requests,
                   submitted, editor>>
    /\ UNCHANGED <<retryVars, enrichVars, sessionVars>>

\* texts the user leaves in the message box
SampleMessages == {"", "  ", "Add authentication flow"}
\* suggestedPrompts, of which one is kept
SuggestedPrompts == {"Add authentication flow"}

\* message.trim()
Trim(text) == IF text = "  " THEN "" ELSE text

\* the records of chatHistory; id and timestamp are read off the clock and
\* are left out
UserMessage(content) == [type |-> "user", content |-> content]
BotMessage ==
    [type |-> "bot",
     content |-> "I've updated your diagram based on your request."]

\* the negation of: !message.trim() || state.loading
CanSend(text, st) == Trim(text) # "" /\ ~st.loading

\* variant: only the code of the response is stored
ChatRespondedCodeOnly(st, r) ==
    Finally(
        IF r.returns = "success"
        THEN Dispatch(st,
                <<Action("ADD_CHAT_MESSAGE", BotMessage),
                  Action("SET_PLANTUML_DATA",
                         [code |-> r.code, image |-> st.plantUMLImage])>>)
        ELSE appReducer(st, Action("SET_ERROR", "Failed to process your request")))

\* variant: the bot answers whatever the response was
ChatRespondedAlwaysAnswers(st, r) ==
    Finally(
        IF r.returns = "success"
        THEN Dispatch(st,
                <<Action("ADD_CHAT_MESSAGE", BotMessage),
                  Action("SET_PLANTUML_DATA",
                         [code |-> r.code, image |-> r.image])>>)
        ELSE Dispatch(st,
                <<Action("ADD_CHAT_MESSAGE", BotMessage),
                  Action("SET_ERROR", "Failed to process your request")>>))

\* ChatInterface.handleSendMessage after the await
ChatResponded(st, r) ==
    Finally(
        CASE r.returns = "success" ->
                Dispatch(st,
                    <<Action("ADD_CHAT_MESSAGE", BotMessage),
                      Action("SET_PLANTUML_DATA",
                             [code |-> r.code, image |-> r.image])>>)
          [] r.returns = "failure" ->
                appReducer(st, Action("SET_ERROR",
                                      "Failed to process your request"))
          [] OTHER ->
                appReducer(st, Action("SET_ERROR",
                    MessageOr(r.message, "Failed to send message"))))

\* the onChange of the message box of ChatInterface
HandleMessageChange(value) ==
    /\ state.currentStep = "chat"
    /\ ~state.loading
    /\ chatMessage' = value
    /\ lastEvent' = Event("setMessage", value)
    /\ UNCHANGED <<state, localStorage, serviceApiKey, keyInput, pending,
                   requests, submitted, editor>>
    /\ UNCHANGED <<retryVars, enrichVars, sessionVars>>

\* ChatInterface.handleSuggestedPrompt
HandleSuggestedPrompt(prompt) ==
    /\ state.currentStep = "chat"
    /\ Len(state.chatHistory) = 0
    /\ chatMessage' = prompt
    /\ lastEvent' = Event("handleSuggestedPrompt", prompt)
    /\ UNCHANGED <<state, localStorage, serviceApiKey, keyInput, pending,
                   requests, submitted, editor>>
    /\ UNCHANGED <<retryVars, enrichVars, sessionVars>>

\* ChatInterface.handleSendMessage up to the await
HandleSendMessage ==
    /\ state.currentStep = "chat"
    /\ CanSend(chatMessage, state)
    /\ LET said == appReducer(state, Action("ADD_CHAT_MESSAGE",
                                            UserMessage(chatMessage)))
           loading == appReducer(said, Action("SET_LOADING", TRUE))
           endpoint == IF state.fileType = "cmdb"
                       THEN "/chat-cmdb-plantuml/" ELSE "/chat-plantuml/"
       IN IF ThrowsMissingKey
          THEN /\ state' = Finally(appReducer(loading,
                              Action("SET_ERROR", MissingKeyError)))
               /\ UNCHANGED <<pending, requests>>
          ELSE /\ Len(requests) < MaxRequests
               /\ state' = loading
               /\ requests' = Append(requests, KeyedRequest(endpoint))
               /\ pending' = pending
                    \cup {Waiting("chat", NoFile, SelectedFileType(state))}
    /\ chatMessage' = ""
    /\ lastEvent' = Event("handleSendMessage", chatMessage)
    /\ UNCHANGED <<localStorage, serviceApiKey, keyInput, submitted, editor>>
    /\ UNCHANGED <<retryVars, enrichVars, sessionVars>>

\* the response to a chat request arrives
ChatReturns ==
    /\ \E p \in pending :
        /\ p.kind = "chat"
        /\ pending' = pending \ {p}
        /\ \E r \in Responses :
            /\ state' = ChatResponded(state, r)
            /\ lastEvent' = Event("chatReturns", r)
    /\ UNCHANGED <<localStorage, serviceApiKey, keyInput, requests, submitted,
                   editor, chatMessage>>
    /\ UNCHANGED <<retryVars, enrichVars, sessionVars>>

\* variant: the list of an earlier StepIndicator, without the file-type step
stepsWithoutFileType == <<"api-key", "upload", "edit", "diagram", "chat">>

\* the ids of steps of StepIndicator
steps == <<"api-key", "file-type", "upload", "edit", "diagram", "chat">>

\* array.findIndex: the first index, counted from 0, or -1
findIndex(array, id) ==
    IF \E i \in 1..Len(array) : array[i] = id
    THEN (CHOOSE i \in 1..Len(array) :
            /\ array[i] = id
            /\ \A j \in 1..(i - 1) : array[j] # id) - 1
    ELSE -1

\* StepIndicator.getStepStatus
getStepStatus(stepId) ==
    LET currentIndex == findIndex(steps, state.currentStep)
        stepIndex == findIndex(steps, stepId)
    IN IF stepIndex < currentIndex THEN "completed"
       ELSE IF stepIndex = currentIndex THEN "current"
       ELSE "upcoming"

AppNext ==
    \/ HandleGetStarted
    \/ \E value \in SampleKeys : HandleApiKeyChange(value)
    \/ HandleClearKey
    \/ HandleSubmit
    \/ \E fileType \in {"test-cases", "cmdb"} : HandleFileTypeSelect(fileType)
    \/ \E file \in Files : HandleFiles(file)
    \/ UploadReturns
    \/ HandleGenerateDiagram
    \/ GenerateReturns
    \/ HandleBackToUpload
    \/ \E step \in {"edit", "chat", "upload"} : HandleViewerStep(step)
    \/ HandleBackToDiagram
    \/ \E value \in SampleMessages : HandleMessageChange(value)
    \/ \E prompt \in SuggestedPrompts : HandleSuggestedPrompt(prompt)
    \/ HandleSendMessage
    \/ ChatReturns

----------------------------------------------------------------------------
(* The editors of the edit step: TestCaseEditor and CmdbEditor *)

\* the test cases of an upload, each list with ids of its own
TestCaseRows ==
    {<<[id |-> "TC1", title |-> "login", action |-> "open the page"]>>,
     <<[id |-> "TC1", title |-> "login", expected |-> "dashboard",
        description |-> "", action |-> "open the page"],
       [id |-> "TC2", title |-> "logout", expected |-> "landing page",
        description |-> "ends the session", action |-> "press logout"]>>}

\* the CMDB items of an upload
CmdbRows ==
    {<<[id |-> "CI1", name |-> "web01", type |-> "server",
        description |-> "front end"],
       [id |-> "CI2", name |-> "db01", type |-> "database",
        description |-> "orders"]>>}

\* what the user types into a field of an edit form
TypedValues == {"edited"}

\* the app states in which an editor is shown after an upload
EditStepStates ==
    {[initialState EXCEPT !.currentStep = "edit", !.apiKey = "sk-a1",
                          !.fileType = "test-cases",
                          !.uploadedFile = [type |-> "text/csv", ext |-> "csv"],
                          !.testCases = rows] : rows \in TestCaseRows}
    \cup {[initialState EXCEPT !.currentStep = "edit", !.apiKey = "sk-a1",
                          !.fileType = "cmdb",
                          !.uploadedFile = [type |-> "text/csv", ext |-> "csv"],
                          !.cmdbItems = rows] : rows \in CmdbRows}

EditorInit ==
    /\ state \in EditStepStates
    /\ localStorage = "sk-a1"
    /\ serviceApiKey = "sk-a1"
    /\ keyInput = [apiKey |-> "sk-a1", isValid |-> "true"]
    /\ pending = {}
    /\ requests = <<>>
    /\ lastEvent = [ev |-> "none", input |-> Null, tick |-> 0]
    /\ submitted = {"sk-a1"}
    /\ editor = NoEdit
    /\ chatMessage = ""

\* the records the editor of the selected file type lists
EditedList == IF state.fileType = "cmdb" THEN state.cmdbItems ELSE state.testCases

\* value || fallback, for a field the record may lack
FieldOr(record, field, fallback) ==
    IF field \in DOMAIN record /\ Truthy(record[field])
    THEN record[field] ELSE fallback

\* TestCaseEditor.handleEdit fills editForm from the record;
\* CmdbEditor.handleEdit sets editingItem, and the card shows inputs whose
\* defaultValue is taken from the item: editForm stands for what they hold
HandleEdit(i) ==
    /\ state.currentStep = "edit"
    /\ ~(state.fileType # "cmdb" /\ state.loading)
    /\ i \in 1..Len(EditedList)
    /\ editor.editingId # EditedList[i].id
    /\ editor' =
        IF state.fileType = "cmdb"
        THEN [editingId |-> EditedList[i].id,
              editForm |-> [name |-> EditedList[i].name,
                            type |-> EditedList[i].type,
                            description |-> EditedList[i].description]]
        ELSE [editingId |-> EditedList[i].id,
              editForm |-> [title |-> EditedList[i].title,
                            expected |-> FieldOr(EditedList[i], "expected", ""),
                            description |->
                                FieldOr(EditedList[i], "description", "")]]
    /\ lastEvent' = Event("handleEdit", EditedList[i].id)
    /\ UNCHANGED <<state, localStorage, serviceApiKey, keyInput, pending,
                   requests, submitted, chatMessage>>
    /\ UNCHANGED <<retryVars, enrichVars, sessionVars>>

\* the onChange of a field of the edit form: TestCaseEditor stores the
\* value in editForm; in CmdbEditor the handler is empty and only the
\* input holds the value
HandleFormChange(field, value) ==
    /\ state.currentStep = "edit"
    /\ ~(state.fileType # "cmdb" /\ state.loading)
    /\ editor.editingId # Null
    /\ field \in DOMAIN editor.editForm
    /\ editor' = [editor EXCEPT !.editForm[field] = value]
    /\ lastEvent' = Event("onChange", field)
    /\ UNCHANGED <<state, localStorage, serviceApiKey, keyInput, pending,
                   requests, submitted, chatMessage>>
    /\ UNCHANGED <<retryVars, enrichVars, sessionVars>>

\* the updates handleSave passes on: TestCaseEditor passes editForm,
\* the card of CmdbEditor passes {}
SavedUpdates == IF state.fileType = "cmdb" THEN <<>> ELSE editor.editForm

\* TestCaseEditor.handleSave and CmdbEditor.handleSave
HandleSave ==
    /\ state.currentStep = "edit"
    /\ ~(state.fileType # "cmdb" /\ state.loading)
    /\ editor.editingId # Null
    /\ state' = appReducer(state,
            Action(IF state.fileType = "cmdb"
                   THEN "UPDATE_CMDB_ITEM" ELSE "UPDATE_TEST_CASE",
                   [id |-> editor.editingId, updates |-> SavedUpdates]))
    /\ editor' = NoEdit
    /\ lastEvent' = Event("handleSave", editor)
    /\ UNCHANGED <<localStorage, serviceApiKey, keyInput, pending, requests,
                   submitted, chatMessage>>
    /\ UNCHANGED <<retryVars, enrichVars, sessionVars>>

\* TestCaseEditor.handleCancel and CmdbEditor.handleCancel
HandleCancel ==
    /\ state.currentStep = "edit"
    /\ ~(state.fileType # "cmdb" /\ state.loading)
    /\ editor.editingId # Null
    /\ editor' = NoEdit
    /\ lastEvent' = Event("handleCancel", editor.editingId)
    /\ UNCHANGED <<state, localStorage, serviceApiKey, keyInput, pending,
                   requests, submitted, chatMessage>>
    /\ UNCHANGED <<retryVars, enrichVars, sessionVars>>

EditorNext ==
    \/ \E i \in 1..2 : HandleEdit(i)
    \/ \E field \in {"title", "expected", "description", "name", "type"},
          value \in TypedValues : HandleFormChange(field, value)
    \/ HandleSave
    \/ HandleCancel

----------------------------------------------------------------------------
(* apiService called on its own *)

\* keys the service is given
ServiceKeys == {Null, "", "sk-a1"}

\* the four methods that ask for the key, and the path each one posts to
KeyedEndpoints ==
    [generateDiagram |-> "/generate-diagram/",
     generateCmdbDiagram |-> "/generate-cmdb-diagram/",
     chatWithPlantUML |-> "/chat-plantuml/",
     chatWithCmdbPlantUML |-> "/chat-cmdb-plantuml/"]

\* new ApiService()
ServiceInit ==
    /\ state = initialState
    /\ localStorage = Null
    /\ serviceApiKey = Null
    /\ keyInput = [apiKey |-> "", isValid |-> Null]
    /\ pending = {}
    /\ requests = <<>>
    /\ lastEvent = [ev |-> "none", input |-> Null, tick |-> 0]
    /\ submitted = {}
    /\ editor = NoEdit
    /\ chatMessage = ""

\* apiService.setApiKey
SetApiKey(apiKey) ==
    /\ serviceApiKey' = apiKey
    /\ lastEvent' = Event("setApiKey", apiKey)
    /\ UNCHANGED <<state, localStorage, keyInput, pending, requests,
                   submitted, editor, chatMessage>>
    /\ UNCHANGED <<retryVars, enrichVars, sessionVars>>

\* generateDiagram, generateCmdbDiagram, chatWithPlantUML or
\* chatWithCmdbPlantUML up to its fetch
CallKeyed(method) ==
    /\ IF ThrowsMissingKey
       THEN /\ lastEvent' = Event(method, MissingKeyError)
            /\ UNCHANGED requests
       ELSE /\ Len(requests) < MaxRequests
            /\ requests' = Append(requests, KeyedRequest(KeyedEndpoints[method]))
            /\ lastEvent' = Event(method, "fetch")
    /\ UNCHANGED <<state, localStorage, serviceApiKey, keyInput, pending,
                   submitted, editor, chatMessage>>
    /\ UNCHANGED <<retryVars, enrichVars, sessionVars>>

\* apiService.uploadFile up to its fetch
CallUploadFile(file, fileType) ==
    /\ Len(requests) < MaxRequests
    /\ requests' = Append(requests, UploadRequest(file, fileType))
    /\ lastEvent' = Event("uploadFile", "fetch")
    /\ UNCHANGED <<state, localStorage, serviceApiKey, keyInput, pending,
                   submitted, editor, chatMessage>>
    /\ UNCHANGED <<retryVars, enrichVars, sessionVars>>

ServiceNext ==
    \/ \E apiKey \in ServiceKeys : SetApiKey(apiKey)
    \/ \E method \in DOMAIN KeyedEndpoints : CallKeyed(method)
    \/ \E fileType \in {"test-cases", "cmdb"} :
          CallUploadFile([type |-> "text/csv", ext |-> "csv"], fileType)

----------------------------------------------------------------------------
(* Specifications *)

\* no concurrent sessions are running
SessionsIdle ==
    /\ sessions = <<>>
    /\ blocked = <<>>
    /\ inflight = <<>>

\* no enrichment is running
EnrichIdle ==
    /\ test_cases = <<>>
    /\ result = <<>>
    /\ results = <<>>

\* the front end is not open
AppIdle ==
    /\ state = initialState
    /\ localStorage = Null
    /\ serviceApiKey = Null
    /\ keyInput = [apiKey |-> "", isValid |-> Null]
    /\ pending = {}
    /\ requests = <<>>
    /\ lastEvent = [ev |-> "none", input |-> Null, tick |-> 0]
    /\ submitted = {}
    /\ editor = NoEdit
    /\ chatMessage = ""

\* no retry session is running
RetryIdle ==
    /\ max_retries = DefaultMaxRetries
    /\ retry_count = 0
    /\ candidate = NoValue
    /\ plantuml_code = NoValue
    /\ pc = "Idle"
    /\ img_path = NoValue
    /\ error = NoError
    /\ syntax_error = NoError
    /\ calls = <<>>

\* one retry session
Init == RetryInit /\ EnrichIdle /\ SessionsIdle /\ AppIdle
Next == RetryNext
Spec == Init /\ [][Next]_vars

\* one retry session in which every render and fix call returns
SpecFair == Init /\ [][Next]_vars /\ WF_vars(Render) /\ WF_vars(Repair)

\* the validation of one enrichment
InitEnrich == EnrichInit /\ RetryIdle /\ SessionsIdle /\ AppIdle
NextEnrich == Validate
SpecEnrich == InitEnrich /\ [][NextEnrich]_vars

\* two requests served at the same time
InitSessions == SessionsInit /\ RetryIdle /\ EnrichIdle /\ AppIdle
NextSessions == SessionsNext
SpecSessions == InitSessions /\ [][NextSessions]_vars

\* one visit of the front end, from the landing page to the editor
InitApp == AppInit /\ RetryIdle /\ EnrichIdle /\ SessionsIdle
SpecApp == InitApp /\ [][AppNext]_vars

\* the editor of the edit step, from the state an upload leaves
InitEditor == EditorInit /\ RetryIdle /\ EnrichIdle /\ SessionsIdle
SpecEditor == InitEditor /\ [][EditorNext]_vars

\* calls of the methods of apiService
InitService == ServiceInit /\ RetryIdle /\ EnrichIdle /\ SessionsIdle
SpecService == InitService /\ [][ServiceNext]_vars

----------------------------------------------------------------------------
(* Properties of the retry loop *)

LastCall == calls[Len(calls)]
Terminal == pc \in {"Succeeded", "Exhausted"}
SyntaxFailures == {i \in RenderIdx : calls[i].raised = "PlantUMLSyntaxError"}
OtherFailures == {i \in RenderIdx : calls[i].raised = "Exception"}
FailedAgent == {"exception", "empty"}

\* the messages of the failed render calls, in call order
FailedDiagnostics ==
    LET failed == SelectSeq(calls, LAMBDA c : c.op = "render" /\ c.raised # "ok")
    IN [i \in 1..Len(failed) |-> failed[i].msg]

\* the diagnostics the exception that left the loop carries
ErrorDiagnostics == IF error = NoError THEN <<>> ELSE <<str(error)>>

\* C1: a session with ceiling max_retries = k makes at most k+1 render
\* calls, whatever the renderer and the repair do.
C1_RenderCeiling == NumRenders <= max_retries + 1

C1_Witness ==
    /\ max_retries = DefaultMaxRetries
    /\ NumRenders = 3

\* C2: a render that fails with an exit status other than 200 is the last
\* call of the session: the session is Exhausted with that error, no
\* repair and no render follows it, however many retries are left.
C2_OtherErrorIsFatal ==
    \A i \in OtherFailures :
        /\ i = Len(calls)
        /\ pc = "Exhausted"
        /\ error.type = "Exception"
        /\ error.msg = calls[i].msg

C2_Witness ==
    /\ Len(calls) = 1
    /\ calls[1].op = "render"
    /\ calls[1].returncode = 1
    /\ max_retries = DefaultMaxRetries
    /\ retry_count = 0
    /\ pc = "Exhausted"

\* C3: when every render of a session fails with a syntax error, the
\* session is Exhausted after exactly max_retries+1 renders and
\* max_retries repairs, and not before.
C3_AllSyntaxErrorsExhaust ==
    (NumRenders > 0 /\ RenderIdx = SyntaxFailures) =>
        /\ (Terminal \/ NumRenders > max_retries) =>
              /\ pc = "Exhausted"
              /\ NumRenders = max_retries + 1
              /\ NumRepairs = max_retries
        /\ NumRenders <= max_retries + 1

C3_Witness ==
    /\ max_retries = DefaultMaxRetries
    /\ RenderIdx = SyntaxFailures
    /\ pc = "Exhausted"
    /\ NumRenders = 3
    /\ NumRepairs = 2

\* C4: when j renders failed with a syntax error and the next one
\* succeeds, the session is Succeeded after j+1 renders and j repairs; the
\* code it holds is the code of the successful render, which is the output
\* of the j-th repair (the generated candidate when j = 0), and the image
\* path is the one that render produced.
C4_SuccessAfterRepairs ==
    (Len(calls) > 0 /\ LastCall.op = "render" /\ LastCall.raised = "ok") =>
        LET j == Cardinality(SyntaxFailures)
        IN /\ pc = "Succeeded"
           /\ error = NoError
           /\ j <= max_retries
           /\ NumRenders = j + 1
           /\ NumRepairs = j
           /\ plantuml_code = LastCall.source
           /\ IF j = 0
              THEN plantuml_code = candidate
              ELSE /\ calls[Len(calls) - 1].op = "repair"
                   /\ plantuml_code = calls[Len(calls) - 1].out
           /\ img_path = LastCall.img
           /\ img_path \in ImagePaths

C4_Witness ==
    /\ pc = "Succeeded"
    /\ Len(calls) = 3
    /\ calls[1].returncode = 200
    /\ calls[1].details = "missing @enduml"
    /\ calls[2].op = "repair"
    /\ calls[2].out = "fixedA"
    /\ plantuml_code = "fixedA"
    /\ img_path = "e2e_test_diagram.png"

\* C5: a session Exhausted by syntax errors returns an error that carries
\* one diagnostic per failed render, in order: max_retries+1 of them.
C5_FullDiagnosticHistory ==
    (pc = "Exhausted" /\ error.type = "PlantUMLSyntaxError") =>
        /\ ErrorDiagnostics = FailedDiagnostics
        /\ Len(ErrorDiagnostics) = max_retries + 1

\* C6: exit status 200 is classified as a syntax error and every other
\* non-zero exit status as another error, whatever the diagnostic text
\* and the attempt.
C6_ClassifiedByExitStatus ==
    \A i \in RenderIdx :
        /\ calls[i].returncode = 200 <=> calls[i].raised = "PlantUMLSyntaxError"
        /\ calls[i].returncode \notin {0, 200} <=> calls[i].raised = "Exception"
        /\ calls[i].returncode = 0 <=> calls[i].raised = "ok"

C6_Witness ==
    /\ Len(calls) = 5
    /\ calls[1].returncode = 200
    /\ calls[3].returncode = 200
    /\ calls[1].details # calls[3].details
    /\ calls[5].returncode = 201
    /\ calls[5].raised = "Exception"

\* C10: a repair whose AI call fails or returns nothing hands back the
\* fallback diagram; the session goes on to the next attempt with the
\* fallback as its code, and a session that ends in Exhausted ends with
\* the error of its last render, never with an error of the repair.
C10_RepairFailureAbsorbed ==
    /\ \A i \in RepairIdx :
          calls[i].agent \in FailedAgent =>
              /\ calls[i].out = FallbackDiagram
              /\ i < Len(calls) =>
                    /\ calls[i + 1].op = "render"
                    /\ calls[i + 1].source = FallbackDiagram
              /\ i = Len(calls) =>
                    /\ pc = "Attempting"
                    /\ plantuml_code = FallbackDiagram
                    /\ retry_count = NumRepairs
                    /\ retry_count <= max_retries
    /\ pc = "Exhausted" =>
          /\ LastCall.op = "render"
          /\ error.type \in {"PlantUMLSyntaxError", "Exception"}
          /\ error.type = LastCall.raised
          /\ error.msg = LastCall.msg

C10_Witness ==
    /\ Len(calls) = 3
    /\ calls[2].op = "repair"
    /\ calls[2].agent = "exception"
    /\ calls[3].op = "render"
    /\ calls[3].source = FallbackDiagram

\* C11: when every render and fix call returns, a session ends in
\* Succeeded or Exhausted and stays there, and from then on it makes no
\* render and no fix call.
C11_SessionTerminates ==
    /\ <>[]Terminal
    /\ [][Terminal => (pc' = pc /\ calls' = calls)]_vars

C11_Witness ==
    /\ pc = "Exhausted"
    /\ retry_count = max_retries
    /\ max_retries = DefaultMaxRetries

\* C12: a syntax error in the render made with retry_count = max_retries
\* ends the session in Exhausted, and the error raised carries the output
\* captured in that last render.
C12_LastDiagnosticReturned ==
    (/\ Len(calls) > 0
     /\ LastCall.op = "render"
     /\ LastCall.raised = "PlantUMLSyntaxError"
     /\ retry_count = max_retries) =>
        /\ pc = "Exhausted"
        /\ error.type = "PlantUMLSyntaxError"
        /\ Len(str(error)) = 2
        /\ str(error)[2] = LastCall.details

C12_Witness ==
    /\ pc = "Exhausted"
    /\ max_retries = DefaultMaxRetries
    /\ Len(calls) = 5
    /\ LastCall.details = "java not found"
    /\ calls[1].details = "missing @enduml"
    /\ calls[3].details = "missing @enduml"
    /\ error.type = "PlantUMLSyntaxError"
    /\ str(error)[2] = "java not found"

\* C15: the counter stays within 0..max_retries; it is 0 before the first
\* fix and grows by one with each fix, and each fix follows a render that
\* failed with a syntax error.
C15_CounterInRange ==
    /\ retry_count \in 0..max_retries
    /\ retry_count = NumRepairs
    /\ \A i \in RepairIdx :
          /\ i > 1
          /\ calls[i - 1].op = "render"
          /\ calls[i - 1].raised = "PlantUMLSyntaxError"

C15_Witness ==
    /\ max_retries = MaxRetriesCap
    /\ retry_count = max_retries
    /\ pc = "Attempting"

\* C16: render and fix calls alternate, starting with a render: a fix
\* comes only right after a render that failed with a syntax error, one
\* fix per such failure, and a render comes first or right after a fix.
C16_CallsAlternate ==
    /\ \A i \in 1..Len(calls) :
          IF i % 2 = 1
          THEN calls[i].op = "render"
          ELSE /\ calls[i].op = "repair"
               /\ calls[i - 1].raised = "PlantUMLSyntaxError"
    /\ NumRepairs <= NumRenders
    /\ NumRenders <= NumRepairs + 1
    /\ pc = "Repairing" <=>
          (Len(calls) > 0 /\ LastCall.op = "render"
           /\ LastCall.raised = "PlantUMLSyntaxError"
           /\ NumRepairs < max_retries)
    /\ (Len(calls) > 0 /\ LastCall.op = "repair") => AtLoopHead(Session)

C16_Witness ==
    /\ Len(calls) = 4
    /\ calls[2].agent = "exception"
    /\ calls[4].agent = "empty"
    /\ pc = "Attempting"

\* C17: a fix is given the code of the render that has just failed and
\* the message of that one failure; the render after it is given the code
\* the fix handed back.
C17_RepairUsesLastAttempt ==
    \A i \in RepairIdx :
        /\ i > 1
        /\ calls[i].source = calls[i - 1].source
        /\ calls[i].msg = calls[i - 1].msg
        /\ calls[i].msg = <<"Invalid PlantUML syntax. ", calls[i - 1].details>>
        /\ i < Len(calls) => calls[i + 1].source = calls[i].out
        /\ i = Len(calls) => plantuml_code = calls[i].out

C17_Witness ==
    /\ Len(calls) = 5
    /\ calls[4].op = "repair"
    /\ calls[4].source = "fixedA"
    /\ calls[4].source # candidate
    /\ calls[1].details # calls[3].details
    /\ calls[4].out = "fixedB"
    /\ calls[5].source = "fixedB"

----------------------------------------------------------------------------
(* Properties of concurrent sessions *)

\* the agent outcome a logged fix call was made with
LoggedAgent(call) ==
    [kind |-> call.agent, text |-> IF call.agent = "ok" THEN call.out ELSE ""]

\* the locals of a session that runs alone from st and meets the outcomes
\* logged in log, in that order
RECURSIVE RunAlone(_, _)
RunAlone(st, log) ==
    IF log = <<>> THEN st
    ELSE LET call == Head(log)
             next == IF call.op = "render"
                     THEN render_pass(st, call.returncode, call.details, call.img)
                     ELSE fix_pass(st, LoggedAgent(call))
         IN RunAlone(next, Tail(log))

C18_OneCallInProgress ==
    \A s \in SessionIds :
        /\ inflight[s] \in {0, 1}
        /\ inflight[s] = 1 <=> blocked[s] # NoValue
        /\ blocked[s] = "repair" => sessions[s].pc = "Repairing"
        /\ blocked[s] = "render" => AtLoopHead(sessions[s])

C18_Witness ==
    /\ blocked["s1"] = "repair"
    /\ inflight["s1"] = 1
    /\ Len(sessions["s1"].calls) = 3

----------------------------------------------------------------------------
(* Properties of the test-case validation *)

Transformed == results[1]
Preserved == results[2]
Validated == Len(results) >= 2
IdsInOrder(cases) == [i \in 1..Len(cases) |-> cases[i].id]

\* C7: every id of the original test cases is an id of the validated
\* result, also when the AI's list is empty or shares no id with them.
C7_OriginalIdsKept ==
    Validated =>
        \A k \in 2..Len(results) : ids(test_cases) \subseteq ids(results[k])

C7_Witness ==
    /\ Validated
    /\ ids(test_cases) = {"A", "B"}
    /\ ids(Transformed) = {"D"}
    /\ ids(test_cases) \subseteq ids(Preserved)

\* C8: the validated result starts with the AI's list, unchanged and in
\* the same order, followed by exactly the original test cases whose id
\* the AI's list lacks, as they were uploaded.
C8_TransformedPrefixMissingAppended ==
    Validated =>
        /\ Len(Preserved) >= Len(Transformed)
        /\ \A i \in 1..Len(Transformed) : Preserved[i] = Transformed[i]
        /\ SubSeq(Preserved, Len(Transformed) + 1, Len(Preserved))
             = SelectSeq(test_cases, LAMBDA tc : tc.id \notin ids(Transformed))

C8_Witness ==
    /\ Validated
    /\ IdsInOrder(test_cases) = <<"A", "B", "C">>
    /\ IdsInOrder(Transformed) = <<"B", "C", "D">>
    /\ IdsInOrder(Preserved) = <<"B", "C", "D", "A">>
    /\ Preserved[4] = test_cases[1]

\* C9: running the validation a second time changes nothing: the result
\* is the same list, with the same test cases in the same order.
C9_ValidationIdempotent ==
    Len(results) >= 3 => results[3] = results[2]

C9_Witness ==
    /\ Len(results) >= 3
    /\ Preserved # Transformed
    /\ Len(Transformed) > 0
    /\ results[3] = Preserved

----------------------------------------------------------------------------
(* Properties of the front end *)

\* handleFiles has just run on a file
HandledFile == lastEvent'.tick # lastEvent.tick /\ lastEvent'.ev = "handleFiles"

\* C19: when handleFiles runs on a file whose MIME type is not in the list
\* accepted for the selected file type and whose name does not end in an
\* extension accepted for it, the error message is set, no upload request
\* is sent, and uploadedFile, testCases, cmdbItems and currentStep keep
\* their values.
C19_InvalidFileRejected ==
    [][(/\ HandledFile
        /\ lastEvent'.input.type \notin validTypes(SelectedFileType(state))
        /\ ~NameMatches(lastEvent'.input,
                        validExtensions(SelectedFileType(state))))
       => /\ state'.error = errorMessage(SelectedFileType(state))
          /\ requests' = requests
          /\ pending' = pending
          /\ state'.uploadedFile = state.uploadedFile
          /\ state'.testCases = state.testCases
          /\ state'.cmdbItems = state.cmdbItems
          /\ state'.currentStep = state.currentStep]_vars

\* a JSON file was dropped on the test-case upload and was refused
C19_Witness ==
    /\ lastEvent.ev = "handleFiles"
    /\ lastEvent.input = [type |-> "application/json", ext |-> "json"]
    /\ state.fileType = "test-cases"
    /\ state.currentStep = "upload"
    /\ state.error = "Please select a CSV or Excel file for test cases"
    /\ state.uploadedFile = NoFile
    /\ requests = <<>>

\* C20: every key the API key input has saved and passed to onApiKeySet,
\* and so the key of the app state and of the API service, matches
\* ^sk-[a-zA-Z0-9_-]+$, whether it was typed or pre-filled on mount.
C20_OnlyWellFormedKeysPassed ==
    /\ \A key \in submitted : validateApiKey(key)
    /\ state.apiKey # Null => validateApiKey(state.apiKey)
    /\ serviceApiKey # Null => validateApiKey(serviceApiKey)

----------------------------------------------------------------------------
(* Properties of the workflow of the front end *)

\* the handler named ev has just run
Ran(ev) == lastEvent'.tick # lastEvent.tick /\ lastEvent'.ev = ev

\* the response of a request has just been handled
Returned == Ran("uploadReturns") \/ Ran("generateReturns") \/ Ran("chatReturns")

\* C21: from the file-type step on the app state holds an API key; the
\* diagram and chat steps are shown only with a stored code and image; and
\* the diagram step is entered from an earlier step only by a generate
\* request that returned success, with the code and image of its response.
C21_StepsInOrder ==
    /\ [](state.currentStep \in {"file-type", "upload", "edit", "diagram", "chat"}
            => Truthy(state.apiKey))
    /\ [](state.currentStep \in {"diagram", "chat"}
            => state.plantUMLCode # "" /\ state.plantUMLImage # "")
    /\ [][(/\ state'.currentStep = "diagram"
           /\ state.currentStep \notin {"diagram", "chat"})
          => /\ Ran("generateReturns")
             /\ lastEvent'.input.returns = "success"
             /\ state'.plantUMLCode = lastEvent'.input.code
             /\ state'.plantUMLImage = lastEvent'.input.image]_vars

\* a generation succeeded after an earlier operation had failed
C21_Witness ==
    /\ state.currentStep = "diagram"
    /\ lastEvent.ev = "generateReturns"
    /\ state.error = "Failed to generate diagram"
    /\ state.plantUMLCode = "@startuml A"
    /\ state.plantUMLImage = "/static/A.png"
    /\ Truthy(state.apiKey)

\* C22: loading is true exactly while a request of an upload, a generation
\* or a chat message is in flight; handling its response, whatever it is,
\* leaves loading false; and SET_ERROR alone makes loading false.
C22_LoadingWhileInFlight ==
    /\ [](state.loading <=> pending # {})
    /\ [][Returned => ~state'.loading]_vars
    /\ [](~appReducer(state, Action("SET_ERROR", "Failed to upload file")).loading)

\* the user left the chat for the upload step while the chat request is in
\* flight
C22_Witness ==
    /\ state.loading
    /\ \E p \in pending : p.kind = "chat"
    /\ state.currentStep = "upload"

C25_CodeAndImageTogether ==
    /\ [](\/ state.plantUMLCode = "" /\ state.plantUMLImage = ""
          \/ \E d \in Diagrams : /\ state.plantUMLCode = d.code
                                 /\ state.plantUMLImage = d.image)
    /\ [][(Ran("chatReturns") /\ lastEvent'.input.returns # "success")
            => /\ state'.plantUMLCode = state.plantUMLCode
               /\ state'.plantUMLImage = state.plantUMLImage]_vars
    /\ [][(Ran("chatReturns") /\ lastEvent'.input.returns = "success")
            => /\ state'.plantUMLCode = lastEvent'.input.code
               /\ state'.plantUMLImage = lastEvent'.input.image]_vars

\* a refinement has replaced the diagram
C25_Witness ==
    /\ lastEvent.ev = "chatReturns"
    /\ lastEvent.input.returns = "success"
    /\ state.plantUMLCode = "@startuml B"
    /\ state.plantUMLImage = "/static/B.png"
    /\ Len(state.chatHistory) = 2

\* the positions of the messages of one type in chatHistory
MessagesOfType(type) ==
    {i \in 1..Len(state.chatHistory) : state.chatHistory[i].type = type}

C28_ErrorNeverCleared ==
    [][state.error # Null => state'.error # Null]_vars

\* a generation succeeded and the error of the failed upload is still shown
C28_Witness ==
    /\ state.error = "Failed to process file"
    /\ lastEvent.ev = "generateReturns"
    /\ lastEvent.input.returns = "success"
    /\ state.currentStep = "diagram"

\* C30: on every step but the landing page the indicator marks the current
\* step 'current', the steps before it 'completed' and the steps after it
\* 'upcoming'; the current step is always one of the indicator's steps.
C30_IndicatorMarksCurrent ==
    state.currentStep # "landing" =>
        \E c \in 1..Len(steps) :
            /\ steps[c] = state.currentStep
            /\ \A i \in 1..Len(steps) :
                getStepStatus(steps[i])
                    = IF i < c THEN "completed"
                      ELSE IF i = c THEN "current" ELSE "upcoming"

C30_Witness ==
    /\ state.currentStep = "file-type"
    /\ getStepStatus("api-key") = "completed"
    /\ getStepStatus("file-type") = "current"
    /\ getStepStatus("upload") = "upcoming"

----------------------------------------------------------------------------
(* Properties of the editors and of apiService *)

\* C23: Save in the CMDB editor gives the item with the edited id the
\* name, type and description the user has entered, and leaves the other
\* items, their order and their number as they were.
C23_CmdbSaveAppliesEdit ==
    [][(Ran("handleSave") /\ state.fileType = "cmdb")
        => /\ Len(state'.cmdbItems) = Len(state.cmdbItems)
           /\ \A i \in 1..Len(state.cmdbItems) :
                IF state.cmdbItems[i].id = editor.editingId
                THEN /\ state'.cmdbItems[i].id = state.cmdbItems[i].id
                     /\ state'.cmdbItems[i].name = editor.editForm.name
                     /\ state'.cmdbItems[i].type = editor.editForm.type
                     /\ state'.cmdbItems[i].description
                            = editor.editForm.description
                ELSE state'.cmdbItems[i] = state.cmdbItems[i]]_vars

\* C26: called without a key, each of the four AI methods throws the
\* missing-key error and sends nothing; called with a key, it sends one
\* request whose X-OpenAI-API-Key header is that key.
C26_KeyRequiredAndSent ==
    [][\A method \in DOMAIN KeyedEndpoints :
        Ran(method) =>
            IF Truthy(serviceApiKey)
            THEN /\ Len(requests') = Len(requests) + 1
                 /\ requests'[Len(requests')].endpoint = KeyedEndpoints[method]
                 /\ requests'[Len(requests')].headers.XOpenAIAPIKey
                        = serviceApiKey
            ELSE /\ lastEvent'.input = MissingKeyError
                 /\ requests' = requests]_vars

\* a request went out with the key, then the key was taken away and the
\* next call threw
C26_Witness ==
    /\ Len(requests) = 1
    /\ requests[1].endpoint = "/chat-cmdb-plantuml/"
    /\ requests[1].headers.XOpenAIAPIKey = "sk-a1"
    /\ serviceApiKey = ""
    /\ lastEvent.ev = "generateDiagram"
    /\ lastEvent.input = MissingKeyError

\* the fields the form of TestCaseEditor edits
FormFields == {"title", "expected", "description"}

\* C29: Save in the test-case editor changes only title, expected and
\* description of the record with the edited id: the list keeps its
\* length, its ids and their order, every other field and every other
\* record; Cancel changes no record.
C29_TestCaseSaveFrame ==
    /\ [][(Ran("handleSave") /\ state.fileType # "cmdb")
           => /\ Len(state'.testCases) = Len(state.testCases)
              /\ \A i \in 1..Len(state.testCases) :
                   IF state.testCases[i].id = editor.editingId
                   THEN /\ DOMAIN state'.testCases[i]
                             = DOMAIN state.testCases[i] \cup FormFields
                        /\ \A f \in FormFields :
                             state'.testCases[i][f] = editor.editForm[f]
                        /\ \A f \in DOMAIN state.testCases[i] \ FormFields :
                             state'.testCases[i][f] = state.testCases[i][f]
                   ELSE state'.testCases[i] = state.testCases[i]]_vars
    /\ [][Ran("handleCancel") => state'.testCases = state.testCases]_vars

\* the first of two test cases was renamed and the second is as uploaded
C29_Witness ==
    /\ lastEvent.ev = "handleSave"
    /\ Len(state.testCases) = 2
    /\ state.testCases[1].id = "TC1"
    /\ state.testCases[1].title = "edited"
    /\ state.testCases[1].expected = "dashboard"
    /\ state.testCases[1].action = "open the page"
    /\ state.testCases[2].title = "logout"
    /\ editor.editingId = Null

====
